---- MODULE Spec2Model ----
(***************************************************************************)
(* A model of granola-mcp-server's document-cache layer:                   *)
(*   sources/remote_api.py  RemoteApiDocumentSource (HTTP fetch with       *)
(*                          retries, per-request cache files, pagination)  *)
(*   sources/adapter.py     DocumentSourceAdapter (memoized snapshot and   *)
(*                          normalization of raw documents into meetings)  *)
(*                                                                         *)
(* Python values are modelled as tagged records, one field name per type,  *)
(* so that values of different types are unequal instead of incomparable:  *)
(*   None  [none |-> TRUE]        str   [str |-> <<code points>>]          *)
(*   int   [int |-> n]            list  [list |-> <<values>>]              *)
(*   dict  [dict |-> record]      (keys that are absent are not in DOMAIN) *)
(* A Python string is the sequence of its code points, so that Python's    *)
(* ordering of strings (lexicographic by code point) can be computed.      *)
(***************************************************************************)
EXTENDS Integers, Sequences, FiniteSets, TLC

VARIABLES
    fetchRun,     \* the last _fetch_from_api call: its inputs and its outcome
    now,          \* time.time(), in seconds
    files,        \* cache_dir: cache key -> cache file (or NoFile)
    upstream,     \* the collection the remote API serves
    call,         \* the last call on the source: its arguments and outcome
    _cache,       \* DocumentSourceAdapter._cache
    _loaded_at,   \* DocumentSourceAdapter._loaded_at
    delivered,    \* the document list the cache in _cache was built from
    meetings      \* what get_meetings last returned for the cache in _cache

vars == <<fetchRun, now, files, upstream, call,
          _cache, _loaded_at, delivered, meetings>>

fetchVars == <<fetchRun>>
sourceVars == <<now, files, upstream, call>>
adapterVars == <<_cache, _loaded_at, delivered, meetings>>

(***************************************************************************)
(* Python values                                                           *)
(***************************************************************************)
None == [none |-> TRUE]
PyStr(s) == [str |-> s]
PyInt(n) == [int |-> n]
PyList(xs) == [list |-> xs]
PyDict(d) == [dict |-> d]

IsNone(v) == "none" \in DOMAIN v
IsStr(v) == "str" \in DOMAIN v
IsInt(v) == "int" \in DOMAIN v
IsList(v) == "list" \in DOMAIN v
IsDict(v) == "dict" \in DOMAIN v

\* bool(v): None, "", 0, [] and {} are falsy
Truthy(v) ==
    CASE IsNone(v) -> FALSE
      [] IsStr(v) -> v.str # <<>>
      [] IsInt(v) -> v.int # 0
      [] IsList(v) -> v.list # <<>>
      [] IsDict(v) -> DOMAIN v.dict # {}

\* a or b
Or(a, b) == IF Truthy(a) THEN a ELSE b

\* d.get(k) and d.get(k, default) on a dict value
Get(d, k) == IF k \in DOMAIN d.dict THEN d.dict[k] ELSE None
GetDefault(d, k, default) == IF k \in DOMAIN d.dict THEN d.dict[k] ELSE default

(***************************************************************************)
(* RemoteApiDocumentSource._fetch_from_api                                 *)
(*                                                                         *)
(* What one HTTP attempt (request.urlopen and response.read, lines         *)
(* 133-135) can do is the environment's choice:                            *)
(*   [status |-> 200, wire |-> w]  a response whose bytes are w            *)
(*   [HTTPError |-> code]          urlopen raises HTTPError(code)          *)
(*   [URLError |-> TRUE]           urlopen raises URLError (urllib wraps   *)
(*                                 a failure to connect or to send)        *)
(*   [timeout |-> TRUE]            socket.timeout or ConnectionResetError  *)
(*                                 raised while waiting for or reading the *)
(*                                 response: urllib raises these as they   *)
(*                                 are, not as URLError                    *)
(* Response bytes are [text |-> t] or its gzip [gz |-> [text |-> t]]; the  *)
(* text t is [json |-> v] (the JSON text of value v) or [garbage |-> TRUE].*)
(***************************************************************************)
Response(w) == [status |-> 200, wire |-> w]
HTTPError(code) == [HTTPError |-> code]
URLError == [URLError |-> TRUE]
SocketTimeout == [timeout |-> TRUE]

IsResponse(o) == "status" \in DOMAIN o
IsHTTPError(o) == "HTTPError" \in DOMAIN o
IsURLError(o) == "URLError" \in DOMAIN o
IsSocketTimeout(o) == "timeout" \in DOMAIN o

JsonText(v) == [text |-> [json |-> v]]
GarbageText == [text |-> [garbage |-> TRUE]]
Gzip(bytes) == [gz |-> bytes]

\* lines 138-145: gzip.decompress, and the raw bytes when they are not gzip
Decompress(response_data) ==
    IF "gz" \in DOMAIN response_data THEN response_data.gz ELSE response_data

\* line 149: json.loads(decompressed_data.decode("utf-8"))
JsonParses(data) == "json" \in DOMAIN data.text
JsonLoads(data) == data.text.json

\* GranolaParseError(message, details): the error the source raises
Error(message, details) ==
    [cls |-> "GranolaParseError", message |-> message, details |-> details]

max_retries == 3

\* lines 173, 183, 198: if attempt < max_retries - 1
CanRetry_Always(attempt) == attempt < max_retries
CanRetry(attempt) == attempt < max_retries - 1

\* lines 174, 184, 199: wait = (2 ** attempt) * 1.0
Backoff_FromTwo(attempt) == 2 ^ (attempt + 1)
Backoff(attempt) == 2 ^ attempt

\* One iteration's verdict: return a value, raise an error, or sleep and
\* continue with the next attempt.
Return(v) == [do |-> "return", value |-> v]
Raise(e) == [do |-> "raise", value |-> e]
SleepAndContinue(wait) == [do |-> "continue", value |-> wait]

\* lines 133-155, and 207-211 for the GranolaParseError raised at 152, which
\* is not an HTTPError or URLError and so is caught by `except Exception`
OnResponse(attempt, o) ==
    LET decompressed_data == Decompress(o.wire)
    IN  IF JsonParses(decompressed_data)
        THEN Return(JsonLoads(decompressed_data))
        ELSE Raise(Error("Unexpected error: Failed to parse JSON",
                         [attempt |-> attempt + 1]))

\* lines 157-195
OnHTTPError_RetryAuth(attempt, error_code) ==
    IF error_code \in {401, 403, 429} \/ (500 <= error_code /\ error_code < 600)
    THEN IF CanRetry(attempt) THEN SleepAndContinue(Backoff(attempt))
         ELSE Raise(Error("Server error", [status |-> error_code, attempt |-> attempt + 1]))
    ELSE Raise(Error("HTTP error", [status |-> error_code]))
OnHTTPError(attempt, error_code) ==
    CASE error_code = 401 ->
           Raise(Error("Invalid or expired token. Please reauthenticate.",
                       [status |-> 401]))
      [] error_code = 403 ->
           Raise(Error("Access forbidden. Check your token permissions.",
                       [status |-> 403]))
      [] error_code = 429 ->
           IF CanRetry(attempt)
           THEN SleepAndContinue(Backoff(attempt))
           ELSE Raise(Error("Rate limit exceeded. Please try again later.",
                            [status |-> 429, attempt |-> attempt + 1]))
      [] 500 <= error_code /\ error_code < 600 ->
           IF CanRetry(attempt)
           THEN SleepAndContinue(Backoff(attempt))
           ELSE Raise(Error("Server error",
                            [status |-> error_code, attempt |-> attempt + 1]))
      [] OTHER ->
           Raise(Error("HTTP error", [status |-> error_code]))

\* lines 197-205
OnURLError_Unbounded(attempt) == SleepAndContinue(Backoff(attempt))
OnURLError(attempt) ==
    IF CanRetry(attempt)
    THEN SleepAndContinue(Backoff(attempt))
    ELSE Raise(Error("Network error", [attempt |-> attempt + 1]))

\* lines 207-211
OnException(attempt) ==
    Raise(Error("Unexpected error", [attempt |-> attempt + 1]))

\* lines 132-211: the body of the for loop, on the outcome o of the attempt
Attempt(attempt, o) ==
    CASE IsResponse(o) -> OnResponse(attempt, o)
      [] IsHTTPError(o) -> OnHTTPError(attempt, o.HTTPError)
      [] IsURLError(o) -> OnURLError(attempt)
      [] OTHER -> OnException(attempt)

\* lines 130-213: for attempt in range(max_retries), then the final raise.
\* script[i] is the outcome of the i-th HTTP attempt of this call. The
\* result records the attempts made and the sleeps slept, in order.
RECURSIVE FetchLoop(_, _, _)
FetchLoop(attempt, script, sleeps) ==
    IF attempt >= max_retries
    THEN [attempts |-> attempt, sleeps |-> sleeps, raised |-> TRUE,
          value |-> Error("Failed after max retries", [none |-> TRUE])]
    ELSE LET v == Attempt(attempt, script[attempt + 1])
         IN  CASE v.do = "return" ->
                    [attempts |-> attempt + 1, sleeps |-> sleeps,
                     raised |-> FALSE, value |-> v.value]
               [] v.do = "raise" ->
                    [attempts |-> attempt + 1, sleeps |-> sleeps,
                     raised |-> TRUE, value |-> v.value]
               [] OTHER ->
                    FetchLoop(attempt + 1, script, Append(sleeps, v.value))

_fetch_from_api(script) == FetchLoop(0, script, <<>>)

(***************************************************************************)
(* SpecFetch: single _fetch_from_api calls against every scripted sequence *)
(* of attempt outcomes.                                                    *)
(***************************************************************************)
\* Length of a scripted sequence of attempt outcomes (one more than the
\* attempts a call can make, so that an attempt too many would show).
ScriptLen == 4

SampleData == PyDict([docs |-> PyList(<<>>)])

StatusCodes == {401, 403, 404, 429, 500, 503}

Outcomes ==
    {Response(JsonText(SampleData)), Response(Gzip(JsonText(SampleData))),
     Response(GarbageText), URLError, SocketTimeout}
    \cup {HTTPError(c) : c \in StatusCodes}

Scripts == [1..ScriptLen -> Outcomes]

NoRun == [idle |-> TRUE]

\* a caller calls _fetch_from_api and the environment plays `script`
Fetch ==
    /\ fetchRun = NoRun
    /\ \E script \in Scripts :
         fetchRun' = [script |-> script, result |-> _fetch_from_api(script)]
    /\ UNCHANGED <<sourceVars, adapterVars>>

\* the caller has taken the result
FetchReturn ==
    /\ fetchRun # NoRun
    /\ fetchRun' = NoRun
    /\ UNCHANGED <<sourceVars, adapterVars>>

(***************************************************************************)
(* RemoteApiDocumentSource: the cache directory and get_documents          *)
(***************************************************************************)
\* cache_ttl_seconds the source is constructed with, in seconds
cache_ttl == 2

batch_size == 100

\* lines 57-69: one cache file per (limit, offset, include_last_viewed_panel);
\* the key is the first 16 hex digits of the sha256 of "limit:offset:panel",
\* taken here to be free of collisions
_get_cache_key(limit, offset, include_last_viewed_panel) ==
    <<limit, offset, include_last_viewed_panel>>

NoFile == [absent |-> TRUE]
File(mtime, content) == [mtime |-> mtime, content |-> content]

\* lines 71-77
_is_cache_fresh_Inclusive(fs, t, cache_key) ==
    /\ fs[cache_key] # NoFile
    /\ t - fs[cache_key].mtime <= cache_ttl
_is_cache_fresh(fs, t, cache_key) ==
    /\ fs[cache_key] # NoFile
    /\ t - fs[cache_key].mtime < cache_ttl

\* lines 79-88: the parsed JSON of the file, None when the file is missing
\* or json.load raises
_read_cache_EmptyOnError(fs, cache_key) ==
    IF fs[cache_key] = NoFile THEN None
    ELSE IF "json" \in DOMAIN fs[cache_key].content
         THEN fs[cache_key].content.json
         ELSE [dict |-> <<>>]
_read_cache(fs, cache_key) ==
    IF fs[cache_key] = NoFile THEN None
    ELSE IF "json" \in DOMAIN fs[cache_key].content
         THEN fs[cache_key].content.json
         ELSE None

\* lines 90-97: json.dump(data) into the file opened for writing. The
\* environment decides how the write goes:
\*   "ok"          the file holds the JSON text of data
\*   "open_fails"  open() raises: the directory is left as it was
\*   "dump_fails"  the file was opened (and so truncated) and the write
\*                 raises: the file is left holding no valid JSON
\* Either exception is caught and only printed.
WriteOutcomes == {"ok", "open_fails", "dump_fails"}
_write_cache(fs, t, cache_key, data, write) ==
    CASE write = "ok" ->
           [fs EXCEPT ![cache_key] = File(t, [json |-> data])]
      [] write = "dump_fails" ->
           [fs EXCEPT ![cache_key] = File(t, [garbage |-> TRUE])]
      [] OTHER -> fs

RECURSIVE SumSeq(_)
SumSeq(xs) == IF xs = <<>> THEN 0 ELSE Head(xs) + SumSeq(Tail(xs))

Min(a, b) == IF a < b THEN a ELSE b

\* AttributeError: .get on a value that is not a dict (lines 244, 255)
AttributeError ==
    [cls |-> "AttributeError", message |-> "object has no attribute 'get'",
     details |-> [none |-> TRUE]]

\* A call reads and writes st = [now, files]: the clock and the cache
\* directory.
\* lines 241-246: whether the call is answered from the cache file, which
\* is also the case when reading `docs` off the cached value raises.
UsesCache(st, cache_key, force) ==
    /\ ~force
    /\ _is_cache_fresh(st.files, st.now, cache_key)
    /\ LET cached == _read_cache(st.files, cache_key)
       IN  /\ cached # None
           /\ IsDict(cached) => IsList(GetDefault(cached, "docs", PyList(<<>>)))

\* What get_documents hands back: the state it leaves, whether it raised,
\* the docs returned or the exception raised, the HTTP attempts made, the
\* cache key, and how the cache write went ("none": it did not come to it).
Returned(s, v, n, cache_key, w) ==
    [st |-> s, raised |-> FALSE, value |-> PyList(v), http |-> n,
     key |-> cache_key, write |-> w]
Raised(s, e, n, cache_key, w) ==
    [st |-> s, raised |-> TRUE, value |-> e, http |-> n,
     key |-> cache_key, write |-> w]

\* lines 251-261: the response `data` was fetched in n attempts, leaving
\* the state `fetched`; it is written to the cache and its docs returned.
ServeFetched_WriteFatal(fetched, cache_key, data, write, n) ==
    IF write # "ok"
    THEN Raised(fetched, Error("Failed to write cache", [none |-> TRUE]), n,
                cache_key, write)
    ELSE Returned([fetched EXCEPT !.files =
                     _write_cache(fetched.files, fetched.now, cache_key, data, write)],
                  GetDefault(data, "docs", PyList(<<>>)).list, n, cache_key, write)
ServeFetched(fetched, cache_key, data, write, n) ==
    LET written == [fetched EXCEPT !.files =
                      _write_cache(fetched.files, fetched.now,
                                   cache_key, data, write)]
    IN  IF ~IsDict(data)
        THEN Raised(written, AttributeError, n, cache_key, write)
        ELSE
          LET docs == GetDefault(data, "docs", PyList(<<>>))
          IN  IF ~IsList(docs)
              THEN Raised(written,
                     Error("Invalid response format: 'docs' field is not a list",
                           [none |-> TRUE]),
                     n, cache_key, write)
              ELSE Returned(written, docs.list, n, cache_key, write)

\* lines 215-261. `script` is what the HTTP attempts of this call do and
\* `write` how the cache write goes, should the call come to them.
get_documents(st, limit, offset, include_last_viewed_panel, force, script, write) ==
    LET lim == Or(limit, PyInt(batch_size)).int
        off == Or(offset, PyInt(0)).int
        cache_key == _get_cache_key(lim, off, include_last_viewed_panel)
        cached == _read_cache(st.files, cache_key)
    IN  IF UsesCache(st, cache_key, force)
        THEN IF IsDict(cached)
             THEN Returned(st, GetDefault(cached, "docs", PyList(<<>>)).list, 0,
                           cache_key, "none")
             ELSE Raised(st, AttributeError, 0, cache_key, "none")
        ELSE
          LET r == _fetch_from_api(script)
              fetched == [st EXCEPT !.now = st.now + SumSeq(r.sleeps)]
          IN  IF r.raised
              THEN Raised(fetched, r.value, r.attempts, cache_key, "none")
              ELSE ServeFetched(fetched, cache_key, r.value, write, r.attempts)

(***************************************************************************)
(* The remote API, as the source's environment                             *)
(***************************************************************************)
\* Full pages the upstream collection can hold
MaxPages == 1
\* time.time() is followed up to MaxTime
MaxTime == 4

Offsets == {k * batch_size : k \in 0..MaxPages}
\* include_last_viewed_panel is left at its default
Panels == {TRUE}
Keys == {batch_size} \X Offsets \X Panels

UpstreamSizes == {k * batch_size + d : k \in 0..MaxPages, d \in {0, 1}}
Ids(n) == [i \in 1..n |-> i]
UpstreamStates == {Ids(n) : n \in UpstreamSizes}

\* a document as the API renders it
Doc(i, include_last_viewed_panel) ==
    IF include_last_viewed_panel
    THEN PyDict([id |-> PyInt(i), last_viewed_panel |-> None])
    ELSE PyDict([id |-> PyInt(i)])

\* the page of the collection that answers {limit, offset, panel}
Page(up, limit, offset, include_last_viewed_panel) ==
    LET n == IF Len(up) > offset THEN Min(limit, Len(up) - offset) ELSE 0
    IN  [i \in 1..n |-> Doc(up[offset + i], include_last_viewed_panel)]

\* what one HTTP attempt does, by name
Played(kind, page) ==
    CASE kind = "ok" -> Response(JsonText(PyDict([docs |-> PyList(page)])))
      [] kind = "docs_null" -> Response(JsonText(PyDict([docs |-> None])))
      [] kind = "array" -> Response(JsonText(PyList(<<>>)))
      [] kind = "429" -> HTTPError(429)
      [] kind = "500" -> HTTPError(500)
      [] OTHER -> URLError

ScriptOf(kinds, page) ==
    [i \in 1..ScriptLen |->
       Played(IF i <= Len(kinds) THEN kinds[i] ELSE "ok", page)]

\* the environment's choices for one request: how its attempts go (one of
\* env.kinds, each a sequence of attempt outcomes by name, answered "ok"
\* from there on) and how the cache write goes (one of env.writes)
Plays(env, up, limit, offset, include_last_viewed_panel) ==
    LET page == Page(up, limit, offset, include_last_viewed_panel)
    IN  {[script |-> ScriptOf(k, page), write |-> w] :
           k \in env.kinds, w \in env.writes}

\* lines 263-306. The loop calls get_documents once per page; the set is of
\* every way the call can go, one for each choice the environment has at the
\* pages that are fetched over HTTP, within `env`.
\* lines 300-302: if len(batch) < batch_size: break
IsShortPage_Inclusive(batch) == Len(batch) <= batch_size
IsShortPage(batch) == Len(batch) < batch_size

RECURSIVE get_all_documents_loop(_, _, _, _, _, _, _)
get_all_documents_loop(st, include_last_viewed_panel, force, offset, all_docs, pages, env) ==
    LET cache_key == _get_cache_key(batch_size, offset, include_last_viewed_panel)
        all == Plays(env, upstream, batch_size, offset, include_last_viewed_panel)
        envs == IF UsesCache(st, cache_key, force)
                THEN {CHOOSE e \in all : TRUE}
                ELSE all
    IN  UNION {
          LET r == get_documents(st, PyInt(batch_size), PyInt(offset),
                                 include_last_viewed_panel, force,
                                 e.script, e.write)
              page == [limit |-> batch_size, offset |-> offset,
                       http |-> r.http, raised |-> r.raised,
                       batch |-> IF r.raised THEN <<>> ELSE r.value.list]
              done(v) == [st |-> r.st, raised |-> FALSE, value |-> PyList(v),
                          pages |-> Append(pages, page)]
          IN  IF r.raised
              THEN {[st |-> r.st, raised |-> TRUE, value |-> r.value,
                     pages |-> Append(pages, page)]}
              ELSE IF r.value.list = <<>>
                   THEN {done(all_docs)}
                   ELSE IF IsShortPage(r.value.list)
                        THEN {done(all_docs \o r.value.list)}
                        ELSE get_all_documents_loop(
                               r.st, include_last_viewed_panel, force,
                               offset + batch_size, all_docs \o r.value.list,
                               Append(pages, page), env)
          : e \in envs }

get_all_documents(st, include_last_viewed_panel, force, env) ==
    get_all_documents_loop(st, include_last_viewed_panel, force, 0, <<>>, <<>>,
                           env)

\* lines 322-328: every cache file is unlinked; an unlink that raises is
\* passed over and leaves its file. unlinked: the keys whose unlink succeeds.
refresh_cache(fs, unlinked) ==
    [k \in DOMAIN fs |-> IF k \in unlinked THEN NoFile ELSE fs[k]]

\* the cache files found by cache_dir.glob("docs_*.json")
CacheFiles(fs) == {k \in DOMAIN fs : fs[k] # NoFile}

(***************************************************************************)
(* Python strings                                                          *)
(***************************************************************************)
\* str < str: lexicographic by code point, a proper prefix first
RECURSIVE StrLess(_, _)
StrLess(a, b) ==
    IF b = <<>> THEN FALSE
    ELSE IF a = <<>> THEN TRUE
    ELSE IF Head(a) # Head(b) THEN Head(a) < Head(b)
    ELSE StrLess(Tail(a), Tail(b))

\* str(n) of an int n >= 0: its decimal digits
RECURSIVE IntToStr(_)
IntToStr(n) ==
    IF n < 10 THEN <<48 + n>> ELSE IntToStr(n \div 10) \o <<48 + (n % 10)>>

\* str(v), for the strings and ints that the documents followed here hold
\* where the adapter applies str
Str(v) == IF IsStr(v) THEN v.str ELSE IntToStr(v.int)

S_meeting == <<109, 101, 101, 116, 105, 110, 103>>
S_Untitled_Meeting == <<85, 110, 116, 105, 116, 108, 101, 100, 32, 77, 101, 101, 116, 105, 110, 103>>

(***************************************************************************)
(* DocumentSourceAdapter                                                   *)
(*                                                                         *)
(* A Python dict whose keys are computed (documents_dict) is the sequence  *)
(* of its items [key, doc] in insertion order, which is the order a loop   *)
(* over dict.items() follows.                                              *)
(***************************************************************************)
EmptyDict == [dict |-> <<>>]

\* lines 47-53. A dict keeps its keys in the order they were first set and,
\* for each key, the value set last: the entry of a key stands where the
\* first document with that key stood in docs and holds the last such
\* document.
DocumentsDict_KeepAll(docs) ==
    LET n == Len(docs)
        Kept(i) == IsDict(docs[i]) /\ Truthy(Get(docs[i], "id"))
        kept == SelectSeq([i \in 1..n |-> i], Kept)
    IN  [p \in 1..Len(kept) |->
           [key |-> Str(Get(docs[kept[p]], "id")), doc |-> docs[kept[p]]]]
DocumentsDict(docs) ==
    LET n == Len(docs)
        Kept(i) == IsDict(docs[i]) /\ Truthy(Get(docs[i], "id"))
        keys == [i \in 1..n |-> IF Kept(i) THEN <<Str(Get(docs[i], "id"))>> ELSE <<>>]
        Same(i, j) == keys[i] # <<>> /\ keys[i] = keys[j]
        First(i) == keys[i] # <<>> /\ \A j \in 1..(i - 1) : ~Same(i, j)
        Last(i) == CHOOSE j \in i..n :
                     Same(i, j) /\ \A k \in (j + 1)..n : ~Same(i, k)
        firsts == SelectSeq([i \in 1..n |-> i], First)
    IN  [p \in 1..Len(firsts) |->
           [key |-> keys[firsts[p]][1], doc |-> docs[Last(firsts[p])]]]

\* lines 56-65
CacheOf(docs) ==
    [state |-> [documents |-> DocumentsDict(docs),
                meetingsMetadata |-> <<>>,
                documentPanels |-> <<>>,
                documentLists |-> <<>>,
                documentListsMetadata |-> <<>>]]

\* lines 93-96: whether the document passes the type filter
IsMeetingType_Strict(doc) == Get(doc, "type") = PyStr(S_meeting)
IsMeetingType(doc) ==
    LET doc_type == Get(doc, "type")
    IN  ~(Truthy(doc_type) /\ doc_type # PyStr(S_meeting))

\* lines 101-104
StartTs(doc) ==
    LET start_ts == Or(Or(Get(doc, "created_at"), Get(doc, "start_ts")),
                       PyStr(<<>>))
    IN  IF IsStr(start_ts) THEN start_ts
        ELSE IF Truthy(start_ts) THEN PyStr(Str(start_ts)) ELSE PyStr(<<>>)

\* x in participants, participants a list of str
In(x, participants) ==
    IsStr(x) /\ \E i \in 1..Len(participants) : participants[i] = x

\* lines 117-123
RECURSIVE Attendees(_, _)
Attendees(attendees, participants) ==
    IF attendees = <<>> THEN participants
    ELSE LET att == Head(attendees)
             att_name == IF IsDict(att)
                         THEN Or(Get(att, "name"), Get(att, "email"))
                         ELSE None
         IN  Attendees(Tail(attendees),
               IF IsDict(att) /\ Truthy(att_name) /\ ~In(att_name, participants)
               THEN Append(participants, PyStr(Str(att_name)))
               ELSE participants)

\* lines 106-123
Participants(doc) ==
    LET people == Get(doc, "people")
    IN  IF ~IsDict(people) THEN <<>>
        ELSE
          LET creator == GetDefault(people, "creator", EmptyDict)
              creator_name == IF IsDict(creator)
                              THEN Or(Get(creator, "name"), Get(creator, "email"))
                              ELSE None
              first == IF IsDict(creator) /\ Truthy(creator_name)
                       THEN <<PyStr(Str(creator_name))>>
                       ELSE <<>>
              attendees == GetDefault(people, "attendees", PyList(<<>>))
          IN  IF IsList(attendees) THEN Attendees(attendees.list, first)
              ELSE first

\* lines 125-133 and 142
Notes(doc) ==
    LET notes == Or(Or(Get(doc, "notes_plain"), Get(doc, "notes_markdown")),
                    Get(doc, "notes"))
    IN  IF IsDict(notes) THEN None
        ELSE IF IsStr(notes) THEN notes ELSE None

StrOrNone(v) == IF IsStr(v) THEN v ELSE None

\* lines 98-147: the MeetingDict of one document
Meeting(doc_key, doc) ==
    [id |-> PyStr(Str(Or(Get(doc, "id"), PyStr(doc_key)))),
     title |-> Or(Get(doc, "title"), PyStr(S_Untitled_Meeting)),
     start_ts |-> StartTs(doc),
     end_ts |-> None,
     participants |-> PyList(Participants(doc)),
     platform |-> None,
     notes |-> Notes(doc),
     overview |-> StrOrNone(Get(doc, "overview")),
     summary |-> StrOrNone(Get(doc, "summary")),
     folder_id |-> None,
     folder_name |-> None]

\* lines 89-149: the loop over documents.items()[lo..hi], in dict order,
\* walked by halves
RECURSIVE MeetingsOfRange(_, _, _)
MeetingsOfRange(documents, lo, hi) ==
    IF lo > hi THEN <<>>
    ELSE IF lo = hi
         THEN LET doc_key == documents[lo].key
                  doc == documents[lo].doc
              IN  IF IsDict(doc) /\ IsMeetingType(doc)
                  THEN <<Meeting(doc_key, doc)>>
                  ELSE <<>>
    ELSE LET mid == (lo + hi) \div 2
         IN  MeetingsOfRange(documents, lo, mid)
               \o MeetingsOfRange(documents, mid + 1, hi)

\* lines 89-149
MeetingsOf(documents) == MeetingsOfRange(documents, 1, Len(documents))

\* line 152: key=lambda x: x.get("start_ts") or ""
SortKey(x) == Or(x.start_ts, PyStr(<<>>)).str

\* list.sort(key=, reverse=) is stable: xs[i] comes before xs[j] when its
\* key is the greater one (the lesser one without reverse), and when the
\* keys are equal and i < j, with or without reverse.
SortsBefore(xs, i, j, reverse) ==
    LET ki == SortKey(xs[i])
        kj == SortKey(xs[j])
    IN  IF StrLess(ki, kj) THEN ~reverse
        ELSE IF StrLess(kj, ki) THEN reverse
        ELSE i < j

\* the place each element of xs takes in the sorted list
Places(xs, reverse) ==
    [i \in 1..Len(xs) |->
       1 + Cardinality({j \in 1..Len(xs) : j # i /\ SortsBefore(xs, j, i, reverse)})]

\* xs with each element at its place
Arrange(xs, place) ==
    [p \in 1..Len(xs) |-> xs[CHOOSE i \in 1..Len(xs) : place[i] = p]]

SortWith(xs, reverse) == Arrange(xs, Places(xs, reverse) \o <<>>)

\* lines 151-152: meetings.sort(key=..., reverse=True)
SortMeetings_Ascending(ms) == SortWith(ms, FALSE)
SortMeetings(ms) == SortWith(ms, TRUE)

\* lines 81-154, on the loaded cache
get_meetings(cache) == SortMeetings(MeetingsOf(cache.state.documents))

\* lines 31-68. `a` is the adapter [_cache, _loaded_at, delivered], t the
\* time and src what the call on the source does, should load_cache come to
\* it: [raised |-> TRUE] or [raised |-> FALSE, docs |-> the list returned].
\* delivered records the list the installed cache was built from, called
\* whether the source was called.
load_cache_ClearFirst(a, force_reload, t, src) ==
    IF a._cache # None /\ ~force_reload
    THEN [a |-> a, raised |-> FALSE, loaded |-> FALSE, called |-> FALSE]
    ELSE IF src.raised
         THEN [a |-> [_cache |-> None, _loaded_at |-> None, delivered |-> <<>>],
               raised |-> TRUE, loaded |-> FALSE, called |-> TRUE]
         ELSE [a |-> [_cache |-> CacheOf(src.docs),
                      _loaded_at |-> [at |-> t],
                      delivered |-> src.docs],
               raised |-> FALSE, loaded |-> TRUE, called |-> TRUE]
load_cache_Patching(a, force_reload, t, src) ==
    IF a._cache # None /\ ~force_reload
    THEN [a |-> a, raised |-> FALSE, loaded |-> FALSE, called |-> FALSE]
    ELSE IF src.raised
         THEN [a |-> a, raised |-> TRUE, loaded |-> FALSE, called |-> TRUE]
         ELSE [a |-> [_cache |-> CacheOf(a.delivered \o src.docs),
                      _loaded_at |-> [at |-> t],
                      delivered |-> src.docs],
               raised |-> FALSE, loaded |-> TRUE, called |-> TRUE]
load_cache_NoMemo(a, force_reload, t, src) ==
    IF src.raised
    THEN [a |-> a, raised |-> TRUE, loaded |-> FALSE, called |-> TRUE]
    ELSE [a |-> [_cache |-> CacheOf(src.docs),
                 _loaded_at |-> [at |-> t],
                 delivered |-> src.docs],
          raised |-> FALSE, loaded |-> TRUE, called |-> TRUE]
load_cache(a, force_reload, t, src) ==
    IF a._cache # None /\ ~force_reload
    THEN [a |-> a, raised |-> FALSE, loaded |-> FALSE, called |-> FALSE]
    ELSE IF src.raised
         THEN [a |-> a, raised |-> TRUE, loaded |-> FALSE, called |-> TRUE]
         ELSE [a |-> [_cache |-> CacheOf(src.docs),
                      _loaded_at |-> [at |-> t],
                      delivered |-> src.docs],
               raised |-> FALSE, loaded |-> TRUE, called |-> TRUE]

\* lines 156-161, on the list get_meetings() returns
RECURSIVE get_meeting_by_id(_, _)
get_meeting_by_id(ms, meeting_id) ==
    IF ms = <<>> THEN None
    ELSE IF Head(ms).id = PyStr(meeting_id) THEN Head(ms)
         ELSE get_meeting_by_id(Tail(ms), meeting_id)

\* lines 171-176: info["meeting_count"]
meeting_count(cache) == Len(cache.state.documents)

\* lines 163-178; info is what the source's get_cache_info() returned
get_cache_info(a, info) ==
    LET dated == IF a._loaded_at # None
                 THEN [last_loaded_ts |-> a._loaded_at.at] @@ info
                 ELSE info
    IN  IF a._cache # None
        THEN [meeting_count |-> meeting_count(a._cache),
              valid_structure |-> TRUE] @@ dated
        ELSE dated

\* lines 189-193
adapter_refresh_cache_KeepsStamp(a) ==
    [_cache |-> None, _loaded_at |-> a._loaded_at, delivered |-> <<>>]
adapter_refresh_cache(a) ==
    [_cache |-> None, _loaded_at |-> None, delivered |-> <<>>]

(***************************************************************************)
(* Calls on a RemoteApiDocumentSource, and the clock                       *)
(***************************************************************************)
SourceState == [now |-> now, files |-> files]

Installs(st) ==
    /\ st.now <= MaxTime
    /\ now' = st.now
    /\ files' = st.files

NoCall == [op |-> "none"]

\* The (limit, offset) a single-page call is made with: both left out, as
\* get_document_by_id does (line 316), or both given, as get_all_documents
\* does for its second page (lines 287-292)
PageArgs ==
    {[limit |-> None, offset |-> None],
     [limit |-> PyInt(batch_size), offset |-> PyInt(batch_size)]}

\* The environment of the single-page calls: a request is answered at once,
\* answered after one 429, or fails on three 500s; the cache write goes any
\* way it can
CacheEnv ==
    [kinds |-> {<<"ok">>, <<"429", "ok">>, <<"500", "500", "500">>},
     writes |-> WriteOutcomes]

\* The environment of the paginated calls: a request is answered at once or
\* fails on three 500s; the cache file is written or cannot be opened
PagesEnv ==
    [kinds |-> {<<"ok">>, <<"500", "500", "500">>},
     writes |-> {"ok", "open_fails"}]

\* a caller calls get_documents(limit=, offset=, include_last_viewed_panel=, force=)
GetDocumentsIn(env) ==
    \E args \in PageArgs, panel \in Panels, force \in BOOLEAN :
      LET lim == Or(args.limit, PyInt(batch_size)).int
          off == Or(args.offset, PyInt(0)).int
      IN  \E e \in Plays(env, upstream, lim, off, panel) :
            LET r == get_documents(SourceState, args.limit, args.offset,
                                   panel, force, e.script, e.write)
            IN  /\ Installs(r.st)
                /\ call' = [op |-> "get_documents", key |-> r.key,
                            force |-> force, end |-> r.st.now,
                            raised |-> r.raised, value |-> r.value,
                            http |-> r.http, write |-> r.write]
                /\ UNCHANGED <<upstream, fetchVars, adapterVars>>

GetDocuments == GetDocumentsIn(CacheEnv)

\* a caller calls get_all_documents(include_last_viewed_panel=, force=)
GetAllDocuments ==
    \E panel \in Panels, force \in BOOLEAN :
      \E r \in get_all_documents(SourceState, panel, force, PagesEnv) :
        /\ Installs(r.st)
        /\ call' = [op |-> "get_all_documents", panel |-> panel,
                    force |-> force, end |-> r.st.now,
                    raised |-> r.raised, value |-> r.value,
                    pages |-> r.pages]
        /\ UNCHANGED <<upstream, fetchVars, adapterVars>>

\* a caller calls refresh_cache()
RefreshCache ==
    /\ \E unlinked \in SUBSET CacheFiles(files) :
         files' = refresh_cache(files, unlinked)
    /\ call' = [op |-> "refresh_cache"]
    /\ UNCHANGED <<now, upstream, fetchVars, adapterVars>>

\* a second passes
Tick ==
    /\ now < MaxTime
    /\ now' = now + 1
    /\ UNCHANGED <<files, upstream, call, fetchVars, adapterVars>>

InitFetchVars == fetchRun = NoRun
InitSourceVars ==
    /\ now = 0
    /\ files = [k \in Keys |-> NoFile]
    /\ upstream \in UpstreamStates
    /\ call = NoCall
InitAdapterVars ==
    /\ _cache = None
    /\ _loaded_at = None
    /\ delivered = <<>>
    /\ meetings = None

(***************************************************************************)
(* SpecFetch: single _fetch_from_api calls                                 *)
(***************************************************************************)
InitFetch ==
    /\ InitFetchVars
    /\ InitSourceVars /\ upstream = Ids(0)
    /\ InitAdapterVars
NextFetch == Fetch \/ FetchReturn
SpecFetch == InitFetch /\ [][NextFetch]_vars

(***************************************************************************)
(* SpecCache: get_documents calls, cache refreshes and the clock           *)
(***************************************************************************)
InitCache == InitFetchVars /\ InitSourceVars /\ InitAdapterVars
NextCache == GetDocuments \/ RefreshCache \/ Tick
SpecCache == InitCache /\ [][NextCache]_vars

(***************************************************************************)
(* SpecPages: get_all_documents calls, cache refreshes and the clock       *)
(***************************************************************************)
InitPages == InitFetchVars /\ InitSourceVars /\ InitAdapterVars
NextPages == GetAllDocuments \/ RefreshCache \/ Tick
SpecPages == InitPages /\ [][NextPages]_vars

(***************************************************************************)
(* SpecAdapter: a DocumentSourceAdapter over a source that returns the     *)
(* documents of `upstream` as they are, or raises                          *)
(***************************************************************************)
\* Documents a source returns in one list
MaxDocs == 2

S_a == <<97>>
S_b == <<98>>
S_c == <<99>>
S_note == <<110, 111, 116, 101>>
S_Aug29 == <<50, 48, 50, 53, 45, 48, 56, 45, 50, 57>>
S_Aug30 == <<50, 48, 50, 53, 45, 48, 56, 45, 51, 48>>
S_Aug31 == <<50, 48, 50, 53, 45, 48, 56, 45, 51, 49>>
S_Ann == <<65, 110, 110>>
S_ann == <<97, 110, 110>>
S_Bob == <<66, 111, 98>>
S_Alice == <<65, 108, 105, 99, 101>>
S_ann_mail == <<97, 110, 110, 64, 120, 46, 105, 111>>
S_cy_mail == <<99, 121, 64, 120, 46, 105, 111>>

Named(n) == PyDict([name |-> PyStr(n)])
Mailed(m) == PyDict([email |-> PyStr(m)])
WithPeople(i, people) == PyDict([id |-> PyStr(i), people |-> people])

\* documents that differ in id and timestamp
DatedDocs ==
    {PyDict([id |-> PyStr(i)]) : i \in {S_a, S_b}}
    \cup {PyDict([id |-> PyStr(i), created_at |-> PyStr(t)]) :
            i \in {S_a, S_b}, t \in {S_Aug29, S_Aug30}}
    \cup {PyDict([id |-> PyStr(S_c), start_ts |-> PyStr(S_Aug31)]),
          PyDict([id |-> PyStr(S_c), created_at |-> PyStr(<<>>),
                  start_ts |-> PyStr(S_Aug29)]),
          PyDict([id |-> PyStr(S_c), created_at |-> PyInt(7)])}

\* documents that differ in the type they declare
TypedDocs ==
    {PyDict([id |-> PyStr(S_a), type |-> PyStr(S_meeting),
             created_at |-> PyStr(S_Aug29)]),
     PyDict([id |-> PyStr(S_a), type |-> PyStr(S_note)]),
     PyDict([id |-> PyStr(S_b), type |-> PyStr(S_note)]),
     PyDict([id |-> PyStr(S_b), type |-> PyStr(<<>>)])}

\* entries with no usable id, with the id 1 as an int and as a string, and
\* one that is no mapping
OddDocs ==
    {PyDict([title |-> PyStr(S_Ann)]),
     PyDict([id |-> PyStr(<<>>)]),
     PyDict([id |-> PyInt(1)]),
     PyDict([id |-> PyStr(<<49>>), created_at |-> PyStr(S_Aug30)]),
     PyStr(S_a)}

\* documents that differ in their people field
PeopleDocs ==
    {WithPeople(S_a, PyDict([creator |-> Named(S_Ann),
                             attendees |-> PyList(<<Named(S_Bob), Mailed(S_cy_mail)>>)])),
     WithPeople(S_a, PyDict([creator |-> Mailed(S_ann_mail),
                             attendees |-> PyList(<<Named(S_Ann), Named(S_Ann)>>)])),
     WithPeople(S_a, PyDict([creator |-> Named(S_Ann),
                             attendees |-> PyList(<<Named(S_Ann), Named(S_ann)>>)])),
     WithPeople(S_a, PyDict([attendees |-> PyList(<<PyDict([name |-> PyInt(5)]),
                                                    PyDict([name |-> PyInt(5)])>>)])),
     WithPeople(S_a, PyDict([creator |-> PyStr(S_Ann),
                             attendees |-> PyList(<<PyStr(S_Bob), Named(S_Bob)>>)])),
     WithPeople(S_a, PyDict([creator |-> PyDict([name |-> PyStr(<<>>),
                                                 email |-> PyStr(S_ann_mail)]),
                             attendees |-> None])),
     WithPeople(S_a, PyList(<<Named(S_Alice), Named(S_Bob)>>))}

DocUniverse == DatedDocs \cup TypedDocs \cup OddDocs \cup PeopleDocs

DocLists == UNION {[1..n -> DocUniverse] : n \in 0..MaxDocs}

Adapter == [_cache |-> _cache, _loaded_at |-> _loaded_at, delivered |-> delivered]

InstallsAdapter(a) ==
    /\ _cache' = a._cache
    /\ _loaded_at' = a._loaded_at
    /\ delivered' = a.delivered

\* what a call on the source of SpecAdapter does
SourceOutcomes == {[raised |-> TRUE], [raised |-> FALSE, docs |-> upstream]}

NoResult == None

\* what get_cache_info() of the source of SpecAdapter returns
StubInfo == [source |-> "stub"]

\* the ids a caller asks get_meeting_by_id for
AskedIds == {S_a, S_c}

\* a caller calls load_cache(force_reload=) (reload() is load_cache(True))
LoadCache ==
    \E force_reload \in BOOLEAN, src \in SourceOutcomes :
      LET r == load_cache(Adapter, force_reload, now, src)
      IN  /\ InstallsAdapter(r.a)
          /\ meetings' = IF r.loaded THEN NoResult ELSE meetings
          /\ call' = [op |-> "load_cache", force |-> force_reload,
                      called |-> r.called, raised |-> r.raised]
          /\ UNCHANGED <<fetchVars, now, files, upstream>>

\* a caller calls get_meetings()
GetMeetings ==
    \E src \in SourceOutcomes :
      LET r == load_cache(Adapter, FALSE, now, src)
      IN  /\ InstallsAdapter(r.a)
          /\ meetings' = IF r.raised THEN (IF r.loaded THEN NoResult ELSE meetings)
                         ELSE PyList(get_meetings(r.a._cache))
          /\ call' = [op |-> "get_meetings", force |-> FALSE,
                      called |-> r.called, raised |-> r.raised]
          /\ UNCHANGED <<fetchVars, now, files, upstream>>

\* a caller calls get_meeting_by_id(meeting_id)
GetMeetingById ==
    \E meeting_id \in AskedIds, src \in SourceOutcomes :
      LET r == load_cache(Adapter, FALSE, now, src)
      IN  /\ InstallsAdapter(r.a)
          /\ meetings' = IF r.loaded THEN NoResult ELSE meetings
          /\ call' = [op |-> "get_meeting_by_id", force |-> FALSE,
                      called |-> r.called, raised |-> r.raised,
                      meeting_id |-> meeting_id,
                      value |-> IF r.raised THEN None
                                ELSE get_meeting_by_id(get_meetings(r.a._cache),
                                                       meeting_id)]
          /\ UNCHANGED <<fetchVars, now, files, upstream>>

\* a caller calls get_cache_info() on the adapter
GetCacheInfo ==
    /\ call' = [op |-> "get_cache_info", info |-> get_cache_info(Adapter, StubInfo)]
    /\ UNCHANGED <<fetchVars, now, files, upstream, adapterVars>>

\* a caller calls refresh_cache() on the adapter
AdapterRefreshCache ==
    /\ InstallsAdapter(adapter_refresh_cache(Adapter))
    /\ meetings' = NoResult
    /\ call' = [op |-> "refresh_cache"]
    /\ UNCHANGED <<fetchVars, now, files, upstream>>

InitAdapter ==
    /\ InitFetchVars
    /\ now = 0
    /\ files = [k \in Keys |-> NoFile]
    /\ upstream \in DocLists
    /\ call = NoCall
    /\ InitAdapterVars
NextAdapter == LoadCache \/ GetMeetings \/ AdapterRefreshCache
SpecAdapter == InitAdapter /\ [][NextAdapter]_vars

(***************************************************************************)
(* SpecNotes: the adapter over a source that returns one document with     *)
(* any combination of notes fields                                         *)
(***************************************************************************)
S_plain == <<112>>
S_md == <<35, 109>>
S_n == <<110>>

\* a structured (ProseMirror) notes value
StructuredNotes == PyDict([type |-> PyStr(<<100, 111, 99>>)])

\* the field k left out, or set to one of vals
Optional(k, vals) == {<<>>} \cup {k :> v : v \in vals}

NoteDocs ==
    {PyDict([id |-> PyStr(S_a)] @@ p @@ m @@ n) :
       p \in Optional("notes_plain", {PyStr(<<>>), PyStr(S_plain), StructuredNotes}),
       m \in Optional("notes_markdown", {PyStr(S_md), StructuredNotes}),
       n \in Optional("notes", {PyStr(S_n), StructuredNotes, PyInt(0)})}

NoteLists == {<<>>} \cup {<<doc>> : doc \in NoteDocs}

InitNotes ==
    /\ InitFetchVars
    /\ now = 0
    /\ files = [k \in Keys |-> NoFile]
    /\ upstream \in NoteLists
    /\ call = NoCall
    /\ InitAdapterVars
NextNotes == LoadCache \/ GetMeetings \/ GetMeetingById \/ AdapterRefreshCache
SpecNotes == InitNotes /\ [][NextNotes]_vars

(***************************************************************************)
(* SpecStack: a DocumentSourceAdapter over a RemoteApiDocumentSource       *)
(***************************************************************************)
\* The environment of the adapter's loads: a request is answered at once or
\* fails on three 500s; the cache file is written. Time passes in the sleeps
\* between attempts only.
StackEnv ==
    [kinds |-> {<<"ok">>, <<"500", "500", "500">>},
     writes |-> {"ok"}]

\* adapter.py lines 42-45 on a RemoteApiDocumentSource: what
\* get_all_documents(force=force_reload) can do from here
SourceCalls(force_reload) ==
    get_all_documents(SourceState, TRUE, force_reload, StackEnv)

SourceOutcome_Partial(r) == [raised |-> FALSE, docs |-> r.pages[1].batch]
SourceOutcome(r) ==
    IF r.raised THEN [raised |-> TRUE]
    ELSE [raised |-> FALSE, docs |-> r.value.list]

\* a read of the adapter that goes through load_cache(force_reload)
StackRead(op, force_reload, lists) ==
    \E r \in SourceCalls(force_reload) :
      \E l \in {load_cache(Adapter, force_reload, r.st.now, SourceOutcome(r))} :
          /\ InstallsAdapter(l.a)
          /\ IF l.called THEN Installs(r.st) ELSE UNCHANGED <<now, files>>
          /\ meetings' = IF lists /\ ~l.raised
                         THEN PyList(get_meetings(l.a._cache))
                         ELSE IF l.loaded THEN NoResult ELSE meetings
          /\ call' = [op |-> op, force |-> force_reload,
                      called |-> l.called, raised |-> l.raised,
                      pages |-> IF l.called THEN r.pages ELSE <<>>]
          /\ UNCHANGED <<fetchVars, upstream>>

StackLoadCache == \E force_reload \in BOOLEAN : StackRead("load_cache", force_reload, FALSE)

StackGetMeetings == StackRead("get_meetings", FALSE, TRUE)

\* adapter.py lines 189-193 with remote_api.py lines 322-328
StackRefreshCache ==
    /\ \E unlinked \in SUBSET CacheFiles(files) :
         files' = refresh_cache(files, unlinked)
    /\ InstallsAdapter(adapter_refresh_cache(Adapter))
    /\ meetings' = NoResult
    /\ call' = [op |-> "refresh_cache"]
    /\ UNCHANGED <<fetchVars, now, upstream>>

InitStack == InitFetchVars /\ InitSourceVars /\ InitAdapterVars
NextStack == StackLoadCache \/ StackGetMeetings \/ StackRefreshCache
SpecStack == InitStack /\ [][NextStack]_vars

(***************************************************************************)
(* SpecMemo: the same adapter over a source whose documents change         *)
(* between calls                                                           *)
(***************************************************************************)
\* the documents the source of SpecMemo holds at one time or another
MemoDocs ==
    {PyDict([id |-> PyStr(S_a)]),
     PyDict([id |-> PyStr(S_b), created_at |-> PyStr(S_Aug29)]),
     PyDict([id |-> PyStr(S_b), type |-> PyStr(S_note)])}

MemoLists == UNION {[1..n -> MemoDocs] : n \in 0..MaxDocs}

\* the upstream data changes
UpstreamChanges ==
    /\ upstream' \in MemoLists \ {upstream}
    /\ UNCHANGED <<fetchVars, now, files, call, adapterVars>>

InitMemo ==
    /\ InitFetchVars
    /\ now = 0
    /\ files = [k \in Keys |-> NoFile]
    /\ upstream \in MemoLists
    /\ call = NoCall
    /\ InitAdapterVars
NextMemo ==
    \/ LoadCache \/ GetMeetings \/ GetMeetingById \/ GetCacheInfo
    \/ AdapterRefreshCache \/ UpstreamChanges
SpecMemo == InitMemo /\ [][NextMemo]_vars

(***************************************************************************)
(* Claims about _fetch_from_api, checked under SpecFetch                   *)
(***************************************************************************)
Ran == "script" \in DOMAIN fetchRun

Is429(o) == IsHTTPError(o) /\ o.HTTPError = 429
Is5xx(o) == IsHTTPError(o) /\ 500 <= o.HTTPError /\ o.HTTPError < 600
IsAuthFailure(o) == IsHTTPError(o) /\ o.HTTPError \in {401, 403}
IsSuccess(o) == IsResponse(o) /\ JsonParses(Decompress(o.wire))

\* the error kinds of the specification, as the GranolaParseError each is
\* raised as
HasStatus(e, code) ==
    /\ e.cls = "GranolaParseError"
    /\ "status" \in DOMAIN e.details
    /\ e.details.status = code
IsRateLimitError(e) ==
    HasStatus(e, 429) /\ e.message = "Rate limit exceeded. Please try again later."
IsAuthError(e, code) ==
    /\ HasStatus(e, code)
    /\ e.message = IF code = 401
                   THEN "Invalid or expired token. Please reauthenticate."
                   ELSE "Access forbidden. Check your token permissions."
IsServerError(e, code) == HasStatus(e, code) /\ e.message = "Server error"

\* C2: 429 responses followed by a success on attempt 1, 2 or 3 return the
\* parsed response of that attempt, which is the last attempt made (so at
\* most 3 are made); three 429 responses make the call fail after exactly 3
\* attempts with the rate-limit error.
C2_RetryBound ==
    Ran =>
      LET s == fetchRun.script
          r == fetchRun.result
      IN  /\ \A k \in 0..2 :
               ((\A i \in 1..k : Is429(s[i])) /\ IsSuccess(s[k + 1])) =>
                 /\ ~r.raised
                 /\ r.attempts = k + 1
                 /\ r.attempts <= 3
                 /\ r.value = JsonLoads(Decompress(s[k + 1].wire))
          /\ (\A i \in 1..3 : Is429(s[i])) =>
               /\ r.raised
               /\ r.attempts = 3
               /\ IsRateLimitError(r.value)
               /\ r.value.details.attempt = 3

C2_Witness ==
    /\ Ran
    /\ Is429(fetchRun.script[1]) /\ Is429(fetchRun.script[2])
    /\ IsSuccess(fetchRun.script[3])
    /\ ~fetchRun.result.raised
    /\ fetchRun.result.attempts = 3

\* C3: an attempt answered 401 or 403 is the last attempt of the call, the
\* call raises the error of that status, and no sleep follows the attempt
\* (the sleeps are those before it); answered so on the first attempt, the
\* call makes exactly one attempt and never sleeps.
C3_AuthFailsAtOnce ==
    Ran =>
      LET s == fetchRun.script
          r == fetchRun.result
      IN  \A i \in 1..ScriptLen :
            (i <= r.attempts /\ IsAuthFailure(s[i])) =>
              /\ r.raised
              /\ IsAuthError(r.value, s[i].HTTPError)
              /\ r.attempts = i
              /\ Len(r.sleeps) = i - 1
              /\ i = 1 => (r.attempts = 1 /\ r.sleeps = <<>>)

C3_Witness ==
    /\ Ran
    /\ Is429(fetchRun.script[1])
    /\ fetchRun.script[2] = HTTPError(401)
    /\ fetchRun.result.raised
    /\ fetchRun.result.attempts = 2
    /\ fetchRun.result.sleeps = <<1>>

\* C4: an attempt answered 5xx is retried while fewer than 3 attempts were
\* made, after a sleep of 1 second before the 2nd attempt and of 2 seconds
\* before the 3rd; answered 5xx on the 3rd attempt the call raises the server
\* error with no further sleep. No call makes more than 3 attempts.
C4_ServerErrorBackoff ==
    Ran =>
      LET s == fetchRun.script
          r == fetchRun.result
      IN  /\ r.attempts <= 3
          /\ \A i \in 1..ScriptLen :
               (i <= r.attempts /\ Is5xx(s[i])) =>
                 IF i < 3
                 THEN /\ r.attempts > i
                      /\ Len(r.sleeps) >= i
                      /\ r.sleeps[i] = IF i = 1 THEN 1 ELSE 2
                 ELSE /\ r.raised
                      /\ r.attempts = 3
                      /\ IsServerError(r.value, s[i].HTTPError)
                      /\ r.value.details.attempt = 3
                      /\ Len(r.sleeps) = 2

C4_Witness ==
    /\ Ran
    /\ \A i \in 1..3 : fetchRun.script[i] = HTTPError(500)
    /\ fetchRun.result.raised
    /\ fetchRun.result.attempts = 3
    /\ fetchRun.result.sleeps = <<1, 2>>

\* C5: every attempt that fails at network level (URLError, or a timeout or
\* reset of the connection with no HTTP status received) is retried while
\* fewer than 3 attempts were made, and the call raises only on the 3rd.
IsNetworkFailure(o) == IsURLError(o) \/ IsSocketTimeout(o)
C5_NetworkFailuresRetried ==
    Ran =>
      LET s == fetchRun.script
          r == fetchRun.result
      IN  \A i \in 1..ScriptLen :
            (i <= r.attempts /\ IsNetworkFailure(s[i])) =>
              IF i < 3
              THEN r.attempts > i
              ELSE r.raised /\ r.attempts = 3

(***************************************************************************)
(* Claims about get_documents, checked under SpecCache                     *)
(***************************************************************************)
\* the step is a get_documents call (one that ends when and as the call
\* before it did and leaves the files as they were is a step that changes
\* nothing)
GetDocumentsStep ==
    /\ call'.op = "get_documents"
    /\ call' # call \/ files' # files

HoldsDocsList(f) ==
    /\ f # NoFile
    /\ "json" \in DOMAIN f.content
    /\ IsDict(f.content.json)
    /\ "docs" \in DOMAIN f.content.json.dict
    /\ IsList(f.content.json.dict.docs)

\* C1 as claimed: a get_documents call with force=False, made less than
\* cache_ttl seconds after a call with the same parameters returned, issues
\* no HTTP request.
C1_NoRequestWithinTtlOfPriorCall ==
    [][(/\ GetDocumentsStep
        /\ call.op = "get_documents"
        /\ ~call.raised
        /\ call'.key = call.key
        /\ ~call'.force
        /\ now - call.end < cache_ttl)
       => call'.http = 0]_vars

\* C1, amended: a get_documents call with force=False that finds the cache
\* file of its parameters holding a response with a docs list, written less
\* than cache_ttl seconds ago, issues no HTTP request and returns the docs of
\* the file; a call with force=True, or that finds no cache file or one whose
\* age has reached cache_ttl, issues an HTTP request.
C1_CacheFreshness ==
    [][GetDocumentsStep =>
         LET f == files[call'.key]
         IN  /\ (/\ ~call'.force
                 /\ HoldsDocsList(f)
                 /\ now - f.mtime < cache_ttl)
                => /\ call'.http = 0
                   /\ ~call'.raised
                   /\ call'.value = f.content.json.dict.docs
                   /\ files' = files
             /\ (call'.force \/ f = NoFile \/ now - f.mtime >= cache_ttl)
                => call'.http >= 1]_vars

C1_Witness ==
    /\ call.op = "get_documents"
    /\ ~call.force
    /\ ~call.raised
    /\ call.http = 0
    /\ call.value.list # <<>>
    /\ HoldsDocsList(files[call.key])
    /\ call.end - files[call.key].mtime = 1

(***************************************************************************)
(* Claims about get_all_documents, checked under SpecPages                 *)
(***************************************************************************)
RECURSIVE Concat(_)
Concat(seqs) == IF seqs = <<>> THEN <<>> ELSE Head(seqs) \o Concat(Tail(seqs))

\* C6: the pages are requested with limit 100 at offsets 0, 100, 200, ... in
\* that order; every page before the last requested one held at least 100
\* documents, so none follows an empty or shorter page; a call that returns
\* ends on a page of fewer than 100 documents and returns the pages
\* concatenated in the order fetched.
C6_Pagination ==
    call.op = "get_all_documents" =>
      LET ps == call.pages
          n == Len(ps)
      IN  /\ n >= 1
          /\ \A i \in 1..n : ps[i].limit = 100 /\ ps[i].offset = 100 * (i - 1)
          /\ \A i \in 1..(n - 1) : ~ps[i].raised /\ Len(ps[i].batch) >= 100
          /\ call.raised <=> ps[n].raised
          /\ ~call.raised =>
               /\ Len(ps[n].batch) < 100
               /\ call.value = PyList(Concat([i \in 1..n |-> ps[i].batch]))

C6_Witness ==
    /\ call.op = "get_all_documents"
    /\ ~call.raised
    /\ Len(call.pages) = 2
    /\ Len(call.pages[1].batch) = 100
    /\ Len(call.pages[2].batch) = 1
    /\ Len(call.value.list) = 101


(***************************************************************************)
(* Claims about DocumentSourceAdapter.get_meetings, checked under          *)
(* SpecAdapter. `delivered` is the list the source returned, `meetings`    *)
(* the list get_meetings returned for it.                                  *)
(***************************************************************************)
Listed == meetings # NoResult

HasId(doc) == IsDict(doc) /\ "id" \in DOMAIN doc.dict /\ ~IsNone(Get(doc, "id"))

\* the meeting m carries the id of the delivered document doc
Corresponds(m, doc) == HasId(doc) /\ m.id = PyStr(Str(Get(doc, "id")))

\* no other delivered document carries the id of delivered[i]
AloneWithId(i) ==
    \A k \in 1..Len(delivered) :
        k # i /\ HasId(delivered[k]) /\ HasId(delivered[i])
            => Get(delivered[k], "id") # Get(delivered[i], "id")

\* delivered[i] has a non-empty id that no other delivered document carries
HasOwnId(i) ==
    HasId(delivered[i]) /\ Truthy(Get(delivered[i], "id")) /\ AloneWithId(i)

LacksTypeOrIsMeeting(doc) ==
    IsDict(doc) /\ ("type" \notin DOMAIN doc.dict \/ Get(doc, "type") = PyStr(S_meeting))

DeclaresOtherType(doc) ==
    IsDict(doc) /\ "type" \in DOMAIN doc.dict /\ Get(doc, "type") # PyStr(S_meeting)

MeetingsFor(doc) ==
    {j \in 1..Len(meetings.list) : Corresponds(meetings.list[j], doc)}

\* C7: every delivered document with no type field, or with type "meeting",
\* has exactly one corresponding meeting in the list get_meetings returns,
\* and a document that declares any other type value has none. Stated for
\* the documents that carry a non-empty id of their own, the only ones whose
\* meeting can be told apart in the list.
C7_TypeFilter ==
    Listed =>
      \A i \in 1..Len(delivered) :
        /\ LacksTypeOrIsMeeting(delivered[i]) /\ HasOwnId(i)
             => Cardinality(MeetingsFor(delivered[i])) = 1
        /\ DeclaresOtherType(delivered[i]) /\ HasOwnId(i)
             => MeetingsFor(delivered[i]) = {}

\* C8: the list get_meetings returns is sorted by start_ts descending under
\* string comparison, so that a meeting with an empty start_ts comes after
\* every meeting with a non-empty one, and 2025-08-30 comes before 2025-08-29.
C8_SortedDescending ==
    Listed =>
      \A i, j \in 1..Len(meetings.list) :
        i < j => ~StrLess(meetings.list[i].start_ts.str, meetings.list[j].start_ts.str)

\* the source delivered the older meeting first, and a meeting with no
\* timestamp before a dated one
C8_Witness ==
    /\ Listed
    /\ Len(delivered) = 2
    /\ Len(meetings.list) = 2
    /\ \/ /\ Get(delivered[1], "created_at") = PyStr(S_Aug29)
          /\ Get(delivered[2], "created_at") = PyStr(S_Aug30)
          /\ meetings.list[1].start_ts = PyStr(S_Aug30)
          /\ meetings.list[2].start_ts = PyStr(S_Aug29)
       \/ /\ "created_at" \notin DOMAIN delivered[1].dict
          /\ Get(delivered[2], "created_at") = PyStr(S_Aug29)
          /\ meetings.list[1].start_ts = PyStr(S_Aug29)
          /\ meetings.list[2].start_ts = PyStr(<<>>)

\* C9: meetings with equal start_ts are returned in ascending order of id,
\* whatever order the source delivered their documents in.
C9_TieBreakAscendingId ==
    Listed =>
      \A i, j \in 1..Len(meetings.list) :
        i < j /\ meetings.list[i].start_ts = meetings.list[j].start_ts
          => ~StrLess(meetings.list[j].id.str, meetings.list[i].id.str)

\* the name-or-email of a person entry, as a string; <<>> when it has none
NameOrEmail(person) ==
    IF IsDict(person) /\ Truthy(Or(Get(person, "name"), Get(person, "email")))
    THEN <<PyStr(Str(Or(Get(person, "name"), Get(person, "email"))))>>
    ELSE <<>>

RECURSIVE NamesOf(_)
NamesOf(persons) ==
    IF persons = <<>> THEN <<>>
    ELSE NameOrEmail(Head(persons)) \o NamesOf(Tail(persons))

\* xs without the values that appeared earlier in it
RECURSIVE WithoutRepeats(_, _)
WithoutRepeats(xs, seen) ==
    IF xs = <<>> THEN seen
    ELSE WithoutRepeats(Tail(xs),
           IF \E i \in 1..Len(seen) : seen[i] = Head(xs) THEN seen
           ELSE Append(seen, Head(xs)))

\* creator first, then the attendees in listed order, no value twice
CreatorThenAttendees(people) ==
    LET creator == GetDefault(people, "creator", EmptyDict)
        attendees == GetDefault(people, "attendees", PyList(<<>>))
    IN  WithoutRepeats(NameOrEmail(creator)
                       \o (IF IsList(attendees) THEN NamesOf(attendees.list) ELSE <<>>),
                       <<>>)

\* C10: for a document whose people field is a structured object, the
\* participants of its meeting are the creator's name-or-email, then each
\* attendee's name-or-email in listed order, with no value appearing twice.
C10_CreatorFirstNoDuplicates ==
    Listed =>
      \A i \in 1..Len(delivered) : \A j \in 1..Len(meetings.list) :
        /\ IsDict(delivered[i])
        /\ IsDict(Get(delivered[i], "people"))
        /\ AloneWithId(i)
        /\ Corresponds(meetings.list[j], delivered[i])
        => /\ meetings.list[j].participants.list
                = CreatorThenAttendees(Get(delivered[i], "people"))
           /\ \A k, l \in 1..Len(meetings.list[j].participants.list) :
                k < l => meetings.list[j].participants.list[k]
                           # meetings.list[j].participants.list[l]

\* C11: for a document whose people field is a flat list of participant
\* records, the participants of its meeting are the records' name-or-email
\* values in list order, duplicates skipped: [{name: Alice}, {name: Bob}]
\* gives ["Alice", "Bob"].
C11_FlatListParticipants ==
    Listed =>
      \A i \in 1..Len(delivered) : \A j \in 1..Len(meetings.list) :
        /\ IsDict(delivered[i])
        /\ IsList(Get(delivered[i], "people"))
        /\ HasOwnId(i)
        /\ Corresponds(meetings.list[j], delivered[i])
        => meetings.list[j].participants.list
             = WithoutRepeats(NamesOf(Get(delivered[i], "people").list), <<>>)

\* C12: no two meetings in one list returned by get_meetings share an id,
\* whatever list the source delivered, also one in which an id occurs twice.
C12_UniqueIds ==
    Listed =>
      \A i, j \in 1..Len(meetings.list) :
        i # j => meetings.list[i].id # meetings.list[j].id

\* two delivered documents carry the same id, once as 1 and once as "1" or
\* both as the same string, and one meeting came out of them
C12_Witness ==
    /\ Listed
    /\ Len(delivered) = 2
    /\ HasId(delivered[1]) /\ HasId(delivered[2])
    /\ Truthy(Get(delivered[1], "id"))
    /\ delivered[1] # delivered[2]
    /\ Str(Get(delivered[1], "id")) = Str(Get(delivered[2], "id"))
    /\ Len(meetings.list) = 1
    /\ meetings.list[1].start_ts = StartTs(delivered[2])

(***************************************************************************)
(* Claims about the adapter's snapshot, checked under SpecMemo             *)
(***************************************************************************)
ReadOps == {"load_cache", "get_meetings", "get_meeting_by_id"}

\* the step is a call of load_cache(force_reload=False), get_meetings or
\* get_meeting_by_id
ReadStep == call' # call /\ call'.op \in ReadOps /\ ~call'.force

\* C13: once a load has succeeded, load_cache(force_reload=False),
\* get_meetings and get_meeting_by_id return the snapshot held, unchanged,
\* without a call to the document source and without an error, whatever the
\* source holds by then.
C13_LoadMemoized ==
    [][_cache # None /\ ReadStep
         => /\ ~call'.called
            /\ ~call'.raised
            /\ _cache' = _cache
            /\ delivered' = delivered
            /\ _loaded_at' = _loaded_at]_vars

\* get_meetings was answered from the snapshot while the source holds other
\* documents, which would give another list
C13_Witness ==
    /\ _cache # None
    /\ upstream # delivered
    /\ call.op = "get_meetings" /\ ~call.called
    /\ meetings = PyList(get_meetings(_cache))
    /\ meetings # PyList(get_meetings(CacheOf(upstream)))

(***************************************************************************)
(* Claims about the adapter over the remote source, checked under          *)
(* SpecStack                                                               *)
(***************************************************************************)
\* the step is a read of the adapter that goes through load_cache
StackReadStep == call' # call /\ call'.op \in ReadOps

\* every page the read asked the source for was fetched over HTTP
EveryPageOverHttp(c) == \A i \in 1..Len(c.pages) : c.pages[i].http >= 1

\* C14: after refresh_cache() the adapter holds no snapshot and no cache file
\* of the remote source remains, and the next read calls the source and
\* fetches every page over HTTP.
C14_RefreshForcesFullReload ==
    [][/\ call'.op = "refresh_cache"
          => _cache' = None /\ CacheFiles(files') = {}
       /\ call.op = "refresh_cache" /\ StackReadStep
          => call'.called /\ EveryPageOverHttp(call')]_vars

(***************************************************************************)
(* Claims about the cache write of get_documents, checked under SpecCache  *)
(***************************************************************************)
WriteFailed(c) == c.write \in {"open_fails", "dump_fails"}

\* the page the API holds for the key of the call
FreshDocs(c) == Page(upstream, c.key[1], c.key[2], c.key[3])

\* C15: when the HTTP fetch of get_documents succeeds with a docs list and
\* writing the cache file fails, the call raises nothing and returns the
\* docs just fetched.
C15_WriteFailureNotFatal ==
    call.op = "get_documents" /\ WriteFailed(call)
      => /\ ~call.raised
         /\ call.http >= 1
         /\ call.value = PyList(FreshDocs(call))

\* get_documents returned a non-empty page although its cache write failed
\* and left a file that holds no JSON
C15_Witness ==
    /\ call.op = "get_documents"
    /\ call.write = "dump_fails"
    /\ ~call.raised
    /\ call.value.list # <<>>
    /\ files[call.key] # NoFile
    /\ _read_cache(files, call.key) = None

(***************************************************************************)
(* Claims about the notes of a meeting, checked under SpecNotes            *)
(***************************************************************************)
\* the first of notes_plain, notes_markdown, notes that is a plain string
FirstStringNotes(doc) ==
    IF IsStr(Get(doc, "notes_plain")) THEN Get(doc, "notes_plain")
    ELSE IF IsStr(Get(doc, "notes_markdown")) THEN Get(doc, "notes_markdown")
    ELSE IF IsStr(Get(doc, "notes")) THEN Get(doc, "notes")
    ELSE None

\* none of the three notes fields holds an empty string
NoEmptyNotes(doc) ==
    \A k \in {"notes_plain", "notes_markdown", "notes"} : Get(doc, k) # PyStr(<<>>)

\* C16: the notes of a meeting are the first of the document's notes_plain,
\* notes_markdown and notes that is a plain string, a structured value
\* counting as absent, and None only when none of the three is a string.
\* Stated for the documents none of whose notes fields is an empty string.
C16_NotesFirstString ==
    Listed =>
      \A i \in 1..Len(delivered) : \A j \in 1..Len(meetings.list) :
        /\ HasOwnId(i)
        /\ NoEmptyNotes(delivered[i])
        /\ Corresponds(meetings.list[j], delivered[i])
        => meetings.list[j].notes = FirstStringNotes(delivered[i])

(***************************************************************************)
(* Claims about malformed documents, checked under SpecAdapter             *)
(***************************************************************************)
\* a field of the document holds a value of another type than the one the
\* normalization reads it as
WronglyTyped(doc) ==
    /\ IsDict(doc)
    /\ \/ "id" \in DOMAIN doc.dict /\ ~IsStr(Get(doc, "id"))
       \/ "created_at" \in DOMAIN doc.dict /\ ~IsStr(Get(doc, "created_at"))
       \/ "people" \in DOMAIN doc.dict
            /\ ~IsDict(Get(doc, "people")) /\ ~IsList(Get(doc, "people"))

Usable(doc) == IsDict(doc) /\ Truthy(Get(doc, "id"))

C18_AllOrError ==
    [][StackReadStep /\ (\E i \in 1..Len(call'.pages) : call'.pages[i].raised)
         => /\ call'.raised
            /\ _cache' = _cache
            /\ delivered' = delivered
            /\ _loaded_at' = _loaded_at
            /\ meetings' = meetings]_vars

\* the first page was fetched and cached, the second failed after three
\* attempts, and the adapter holds no snapshot
C18_Witness ==
    /\ call.op \in ReadOps
    /\ call.raised
    /\ Len(call.pages) = 2
    /\ ~call.pages[1].raised /\ Len(call.pages[1].batch) = batch_size
    /\ call.pages[2].raised /\ call.pages[2].http = max_retries
    /\ _cache = None
    /\ files[<<batch_size, 0, TRUE>>] # NoFile

(***************************************************************************)
(* Claims about get_cache_info and the read operations, checked under      *)
(* SpecMemo                                                                *)
(***************************************************************************)
\* C19: whenever a snapshot is loaded, the meeting_count that get_cache_info
\* reports equals the number of meetings get_meetings returns for that
\* snapshot.
C19_MeetingCount ==
    call.op = "get_cache_info" /\ _cache # None /\ Listed
      => /\ "meeting_count" \in DOMAIN call.info
         /\ call.info.meeting_count = Len(meetings.list)

\* the step is a call of get_meetings, get_meeting_by_id or get_cache_info
SnapshotRead ==
    /\ call'.op \in {"get_meetings", "get_meeting_by_id", "get_cache_info"}
    /\ upstream' = upstream

\* C20: get_meetings, get_meeting_by_id and get_cache_info on a loaded
\* snapshot leave its document map and the raw documents as they were, and
\* a get_meetings repeated on the snapshot returns the list it returned
\* before; the snapshot changes only by being cleared on refresh_cache or by
\* being replaced with the one built from the list the source returned on a
\* load, nothing of the former snapshot being kept.
C20_ReadsLeaveSnapshot ==
    [][/\ _cache # None /\ SnapshotRead
            => _cache' = _cache /\ delivered' = delivered
       /\ _cache # None /\ SnapshotRead /\ Listed /\ call'.op = "get_meetings"
            => meetings' = meetings
       /\ _cache' # _cache
            => \/ call'.op = "refresh_cache" /\ _cache' = None
               \/ /\ call'.op \in ReadOps
                  /\ call'.called /\ ~call'.raised
                  /\ _cache' = CacheOf(upstream)]_vars

\* get_meeting_by_id found a meeting in a snapshot already listed, the
\* snapshot still being the one built from the documents delivered although
\* the source holds others by now
C20_Witness ==
    /\ _cache # None /\ _cache = CacheOf(delivered)
    /\ upstream # delivered
    /\ Listed /\ meetings = PyList(get_meetings(_cache))
    /\ call.op = "get_meeting_by_id" /\ ~call.called
    /\ call.value # None

(***************************************************************************)
(* SpecStats: the stats operation of the query engine over the adapter     *)
(***************************************************************************)
S_unknown == <<117, 110, 107, 110, 111, 119, 110>>
S_Sep01 == <<50, 48, 50, 53, 45, 48, 57, 45, 48, 49>>
S_soon == <<115, 111, 111, 110>>

IsDigit(c) == c \in 48..57

\* the text starts with a date, YYYY-MM-DD
ParsesAsDate(s) ==
    /\ Len(s) >= 10
    /\ \A i \in {1, 2, 3, 4, 6, 7, 9, 10} : IsDigit(s[i])
    /\ s[5] = 45 /\ s[8] = 45

\* the periods a caller asks for (a week's key needs the calendar and is
\* left out)
GroupBys == {"day", "month"}

\* the bucket a meeting is counted in
PeriodOf(m, group_by) ==
    LET s == m.start_ts.str
    IN  IF ~ParsesAsDate(s) THEN S_unknown
        ELSE IF group_by = "month" THEN SubSeq(s, 1, 7)
        ELSE SubSeq(s, 1, 10)

\* counts of the meetings ms by period, and their total
CountsBy(ms, group_by, counted) ==
    LET keys == {PeriodOf(ms[i], group_by) : i \in counted}
    IN  [total |-> Len(ms),
         by_period |-> [k \in keys |->
            Cardinality({i \in counted : PeriodOf(ms[i], group_by) = k})]]

meetings_stats_DropUnparsable(ms, group_by) ==
    CountsBy(ms, group_by,
             {i \in 1..Len(ms) : ParsesAsDate(ms[i].start_ts.str)})
meetings_stats(ms, group_by) == CountsBy(ms, group_by, 1..Len(ms))

\* documents that differ in id and in what created_at holds
StatsDocs ==
    {PyDict([id |-> PyStr(i)]) : i \in {S_a, S_b}}
    \cup {PyDict([id |-> PyStr(i), created_at |-> t]) :
            i \in {S_a, S_b},
            t \in {PyStr(S_Aug29), PyStr(S_Aug30), PyStr(S_Sep01),
                   PyStr(S_soon), PyInt(7)}}

StatsLists == UNION {[1..n -> StatsDocs] : n \in 0..MaxDocs}

\* a caller calls the stats tool, which reads the adapter's meetings
MeetingsStats ==
    \E group_by \in GroupBys, src \in SourceOutcomes :
      LET r == load_cache(Adapter, FALSE, now, src)
      IN  /\ InstallsAdapter(r.a)
          /\ meetings' = IF r.loaded THEN NoResult ELSE meetings
          /\ call' = [op |-> "stats", force |-> FALSE,
                      called |-> r.called, raised |-> r.raised,
                      group_by |-> group_by,
                      counts |-> IF r.raised THEN None
                                 ELSE meetings_stats(get_meetings(r.a._cache),
                                                     group_by)]
          /\ UNCHANGED <<fetchVars, now, files, upstream>>

InitStats ==
    /\ InitFetchVars
    /\ now = 0
    /\ files = [k \in Keys |-> NoFile]
    /\ upstream \in StatsLists
    /\ call = NoCall
    /\ InitAdapterVars
NextStats == LoadCache \/ MeetingsStats \/ AdapterRefreshCache
SpecStats == InitStats /\ [][NextStats]_vars

(***************************************************************************)
(* Claims about stats, checked under SpecStats                             *)
(***************************************************************************)
RECURSIVE SumCounts(_, _)
SumCounts(f, keys) ==
    IF keys = {} THEN 0
    ELSE LET k == CHOOSE x \in keys : TRUE
         IN  f[k] + SumCounts(f, keys \ {k})

\* the meetings of the snapshot whose start_ts is no date
Undated == {i \in 1..Len(get_meetings(_cache)) :
              ~ParsesAsDate(get_meetings(_cache)[i].start_ts.str)}

\* C21: stats counts every meeting of the snapshot once: the counts of
\* by_period add up to the total, the total is the number of meetings
\* get_meetings returns, and the meetings whose start_ts is no date are
\* counted under "unknown".
C21_StatsCountsAll ==
    call.op = "stats" /\ ~call.raised
      => LET c == call.counts
         IN  /\ c.total = Len(get_meetings(_cache))
             /\ SumCounts(c.by_period, DOMAIN c.by_period) = c.total
             /\ Undated # {}
                  => /\ S_unknown \in DOMAIN c.by_period
                     /\ c.by_period[S_unknown] = Cardinality(Undated)

\* stats counted one meeting under a day and one under "unknown"
C21_Witness ==
    /\ call.op = "stats" /\ ~call.raised
    /\ call.counts.total = 2
    /\ S_unknown \in DOMAIN call.counts.by_period
    /\ call.counts.by_period[S_unknown] = 1
    /\ Cardinality(DOMAIN call.counts.by_period) = 2

(***************************************************************************)
(* Further claims about _fetch_from_api, checked under SpecFetch           *)
(***************************************************************************)
\* the outcomes the loop answers with a sleep and another attempt
IsRetried(o) == Is429(o) \/ Is5xx(o) \/ IsURLError(o)

\* C22: whatever the outcomes of the attempts, a call makes at most 3
\* attempts and sleeps at most 3 seconds in all, 1 second then 2; the
\* attempts are counted together whatever the error (three retried outcomes
\* of any kinds end the call on the 3rd), and an attempt with any outcome
\* other than 429, 5xx or a URLError is the last one of the call.
C22_AttemptsAndSleepBounded ==
    Ran =>
      LET s == fetchRun.script
          r == fetchRun.result
      IN  /\ 1 <= r.attempts /\ r.attempts <= 3
          /\ SumSeq(r.sleeps) <= 3
          /\ r.sleeps = SubSeq(<<1, 2>>, 1, r.attempts - 1)
          /\ \A i \in 1..r.attempts : ~IsRetried(s[i]) => r.attempts = i
          /\ \A i \in 1..r.attempts : IsRetried(s[i]) /\ i < 3 => r.attempts > i
          /\ (\A i \in 1..3 : IsRetried(s[i])) => r.raised /\ r.attempts = 3

\* a 429, a URLError and a 500 in turn: the call raises on the 3rd attempt
\* after sleeping 1 and 2 seconds
C22_Witness ==
    /\ Ran
    /\ Is429(fetchRun.script[1])
    /\ IsURLError(fetchRun.script[2])
    /\ fetchRun.script[3] = HTTPError(500)
    /\ fetchRun.result.raised
    /\ fetchRun.result.attempts = 3
    /\ fetchRun.result.sleeps = <<1, 2>>
    /\ IsServerError(fetchRun.result.value, 500)

(***************************************************************************)
(* SpecReload: the adapter over a source that changes and fails, while     *)
(* time passes                                                             *)
(***************************************************************************)
NextReload ==
    \/ LoadCache \/ GetMeetings \/ AdapterRefreshCache
    \/ UpstreamChanges \/ Tick
SpecReload == InitMemo /\ [][NextReload]_vars

(***************************************************************************)
(* Claims about failed loads, checked under SpecReload                     *)
(***************************************************************************)
\* the last call was load_cache(force_reload=True), or reload(), and the
\* source raised
ReloadFailed(c) == c.op = "load_cache" /\ c.force /\ c.raised

\* C23: a reload on which the source raises leaves the snapshot held and
\* _loaded_at as they were, and the load_cache(force_reload=False) or
\* get_meetings that follows is answered from that snapshot, without a call
\* on the source and without an error.
C23_FailedReloadKeepsSnapshot ==
    [][/\ _cache # None /\ ReloadFailed(call')
            => /\ _cache' = _cache
               /\ _loaded_at' = _loaded_at
               /\ delivered' = delivered
       /\ _cache # None /\ ReloadFailed(call) /\ ReadStep
            => /\ ~call'.called /\ ~call'.raised
               /\ _cache' = _cache
               /\ _loaded_at' = _loaded_at
               /\ call'.op = "get_meetings"
                    => meetings' = PyList(get_meetings(_cache))]_vars

\* a reload has just failed, later than the load and with other documents
\* upstream by then, and the snapshot of the load is still held
C23_Witness ==
    /\ ReloadFailed(call)
    /\ _cache # None /\ _cache = CacheOf(delivered)
    /\ Len(delivered) = 2
    /\ upstream # delivered
    /\ _loaded_at.at < now

(***************************************************************************)
(* Further claims about the adapter's snapshot, checked under SpecMemo     *)
(***************************************************************************)
\* C24: in every state the adapter reaches by load_cache, reload,
\* get_meetings, get_meeting_by_id, get_cache_info and refresh_cache calls,
\* failed ones included, _loaded_at is set if and only if a snapshot is
\* held.
C24_StampIffSnapshot == (_loaded_at # None) <=> (_cache # None)

\* a reload has just failed with nothing held, the source holding documents:
\* neither the snapshot nor the timestamp is set
C24_Witness ==
    /\ ReloadFailed(call)
    /\ upstream # <<>>
    /\ _cache = None /\ _loaded_at = None

(***************************************************************************)
(* SpecOddReplies: get_documents against an API that also answers with     *)
(* bodies of other shapes, the cache write succeeding or failing midway    *)
(***************************************************************************)
\* a request is answered with the page, with {"docs": null} or with a JSON
\* array; the cache file is written, or is left truncated
OddEnv ==
    [kinds |-> {<<"ok">>, <<"docs_null">>, <<"array">>},
     writes |-> {"ok", "dump_fails"}]

GetDocumentsOdd == GetDocumentsIn(OddEnv)

NextOddReplies == GetDocumentsOdd \/ RefreshCache \/ Tick
SpecOddReplies == InitCache /\ [][NextOddReplies]_vars

(***************************************************************************)
(* Claims about unusable cache files, checked under SpecOddReplies         *)
(***************************************************************************)
\* the file cannot be read or holds no valid JSON
Unreadable(f) == f # NoFile /\ "json" \notin DOMAIN f.content

\* the file holds a JSON object whose docs is no list
DocsNoList(f) ==
    /\ f # NoFile /\ "json" \in DOMAIN f.content
    /\ IsDict(f.content.json)
    /\ ~IsList(GetDefault(f.content.json, "docs", PyList(<<>>)))

\* C25: get_documents(force=False) on a fresh cache file that cannot be
\* read, holds no valid JSON or holds a docs value that is no list goes on
\* to an HTTP fetch; a call that returns without an HTTP attempt returns the
\* docs list of a fresh cache file holding a JSON object, and every value
\* returned is a list.
C25_UnusableCacheNotServed ==
    [][GetDocumentsStep =>
         LET f == files[call'.key]
         IN  /\ ( /\ ~call'.force
                  /\ _is_cache_fresh(files, now, call'.key)
                  /\ Unreadable(f) \/ DocsNoList(f) )
                  => call'.http >= 1
             /\ (~call'.raised /\ call'.http = 0)
                  => /\ ~call'.force
                     /\ _is_cache_fresh(files, now, call'.key)
                     /\ ~Unreadable(f) /\ ~DocsNoList(f)
                     /\ IsDict(f.content.json)
                     /\ call'.value = GetDefault(f.content.json, "docs", PyList(<<>>))
             /\ ~call'.raised => IsList(call'.value)]_vars

\* a call was answered over HTTP although the cache file, written by the
\* call itself thereafter, holds {"docs": null} from now on
C25_Witness ==
    /\ call.op = "get_documents" /\ ~call.force
    /\ call.raised /\ call.http = 1 /\ call.write = "ok"
    /\ DocsNoList(files[call.key])
    /\ _is_cache_fresh(files, now, call.key)

(***************************************************************************)
(* SpecLoop: get_all_documents one page request at a time, while the       *)
(* upstream collection grows                                               *)
(***************************************************************************)
\* the position of a running get_all_documents call is kept in `call`:
\* pc is "loop" at the head of the while loop (line 285), "done" after the
\* return (line 306) and "raised" when get_documents raised

\* a caller calls get_all_documents(force=): lines 281-283
StartAll ==
    /\ "pc" \in DOMAIN call => call.pc # "loop"
    /\ \E force \in BOOLEAN :
         call' = [op |-> "get_all_documents", pc |-> "loop", force |-> force,
                  offset |-> 0, all_docs |-> <<>>, requests |-> 0,
                  last |-> <<>>]
    /\ UNCHANGED <<now, files, upstream, fetchVars, adapterVars>>

\* lines 285-304: one turn of the while loop
LoopIter ==
    /\ "pc" \in DOMAIN call /\ call.pc = "loop"
    /\ \E e \in Plays(PagesEnv, upstream, batch_size, call.offset, TRUE) :
         LET r == get_documents(SourceState, PyInt(batch_size),
                                PyInt(call.offset), TRUE, call.force,
                                e.script, e.write)
             asked == [call EXCEPT !.requests = call.requests + 1]
         IN  /\ Installs(r.st)
             /\ call' =
                  IF r.raised
                  THEN [asked EXCEPT !.pc = "raised", !.last = <<>>]
                  ELSE IF r.value.list = <<>>
                  THEN [asked EXCEPT !.pc = "done", !.last = <<>>]
                  ELSE IF IsShortPage(r.value.list)
                  THEN [asked EXCEPT !.pc = "done", !.last = r.value.list,
                                     !.all_docs = call.all_docs \o r.value.list]
                  ELSE [asked EXCEPT !.last = r.value.list,
                                     !.all_docs = call.all_docs \o r.value.list,
                                     !.offset = call.offset + batch_size]
    /\ UNCHANGED <<upstream, fetchVars, adapterVars>>

\* a full page of documents is added upstream (as long as the collection
\* stays within the pages that are followed)
UpstreamGrows ==
    /\ Len(upstream) < MaxPages * batch_size
    /\ upstream' = Ids(Len(upstream) + batch_size)
    /\ UNCHANGED <<now, files, call, fetchVars, adapterVars>>

NextLoop == StartAll \/ LoopIter \/ UpstreamGrows
\* the while loop goes on as long as it can
SpecLoop == InitCache /\ [][NextLoop]_vars /\ WF_vars(LoopIter)

(***************************************************************************)
(* Claims about the page loop, checked under SpecLoop                      *)
(***************************************************************************)
Looping == "pc" \in DOMAIN call /\ call.pc = "loop"
Ended == "pc" \in DOMAIN call /\ call.pc \in {"done", "raised"}

\* C26: a get_all_documents call ends once a page request is answered with
\* fewer than 100 documents or fails, which an upstream that stops growing
\* comes to; and it ends in no other way: a request answered with 100
\* documents is followed by the request for the next page, however many
\* were made before.
C26_LoopEnds ==
    /\ Looping ~> Ended
    /\ [][Looping /\ call' # call
            => /\ call'.requests = call.requests + 1
               /\ call'.pc = "raised" \/ Len(call'.last) < batch_size
                    => Ended'
               /\ call'.pc # "raised" /\ Len(call'.last) = batch_size
                    => Looping' /\ call'.offset = call.offset + batch_size
               /\ Ended' => call'.pc = "raised" \/ Len(call'.last) < batch_size]_vars

\* a call has ended on an empty page after a full one
C26_Witness ==
    /\ Ended /\ call.pc = "done"
    /\ call.requests = 2
    /\ Len(call.all_docs) = batch_size
    /\ call.last = <<>>

(***************************************************************************)
(* SpecGenerations: get_all_documents calls while time passes and          *)
(* documents are added upstream                                            *)
(***************************************************************************)
\* a new document is put at the head of the upstream collection (the sizes
\* staying among those followed)
UpstreamShifts ==
    /\ Len(upstream) + 1 \in UpstreamSizes
    /\ upstream' = <<Len(upstream) + 1>> \o upstream
    /\ UNCHANGED <<now, files, call, fetchVars, adapterVars>>

NextGenerations == GetAllDocuments \/ Tick \/ UpstreamShifts
SpecGenerations == InitPages /\ [][NextGenerations]_vars

(***************************************************************************)
(* Claims about the pages of one call, checked under SpecGenerations       *)
(***************************************************************************)
\* the pages of the call: some served from a cache file (no HTTP attempt),
\* some fetched
Mixed(pages) ==
    /\ \E i \in 1..Len(pages) : pages[i].http = 0
    /\ \E i \in 1..Len(pages) : pages[i].http >= 1

\* no document occurs twice in the list
NoRepeat(docs) ==
    \A i, j \in 1..Len(docs) : docs[i] = docs[j] => i = j

\* C27: the pages a get_all_documents(force=False) call combines are all
\* served from cache files or all fetched during the call, never some of
\* each, and the list returned holds no document twice.
C27_OneGeneration ==
    (call.op = "get_all_documents" /\ ~call.force /\ ~call.raised)
      => /\ ~Mixed(call.pages)
         /\ NoRepeat(call.value.list)

====
